---- MODULE Spec2Model ----
(***************************************************************************)
(* Centered interval tree of ordovicia/interval-tree (src/src/lib.rs),     *)
(* instantiated at the element type i8.  A node is a record with the       *)
(* fields of struct IntervalTree; an Option<Box<_>> is the empty sequence  *)
(* (None) or a one-element sequence (Some); a BinaryHeap is its backing    *)
(* array.                                                                  *)
(***************************************************************************)
EXTENDS Integers, Sequences, FiniteSets, TLC

VARIABLES
    tree,             \* Option<IntervalTree<i8>>: None before new returns
    status,           \* "none" | "ok" | "panicked" | "aborted"
    inserted,         \* history: the intervals of the inserts that returned
    last,             \* the last call, its arguments and what it returned
    overflow_checks   \* build profile: TRUE = overflow-checked (debug) arithmetic

vars == <<tree, status, inserted, last, overflow_checks>>

----------------------------------------------------------------------------
(* Element type i8 *)

MinInt == -128
MaxInt == 127

(* Bounds of the model *)
Span == 3
MaxInserts == 2

T == MinInt..MaxInt

\* `begin + end` of i8 in a build without overflow checks: two's complement wrap
wrapping_add(a, b) == ((a + b - MinInt) % (MaxInt - MinInt + 1)) + MinInt

\* `begin + end` panics in a build with overflow checks when the sum leaves i8
add_overflows(a, b) == a + b < MinInt \/ a + b > MaxInt

\* `/ T::from(2).unwrap()`: integer division truncating toward zero
div2(a) == IF a >= 0 THEN a \div 2 ELSE -((-a) \div 2)

None == <<>>
Some(x) == <<x>>

Interval(begin, end) == [begin |-> begin, end |-> end]

Range(s) == {s[i] : i \in DOMAIN s}

----------------------------------------------------------------------------
(* The two heap orders and BinaryHeap::push *)

\* a <= b in the order of the wrapper: BeginSorted compares begins,
\* EndSorted compares ends the other way round (rhs.end.cmp(&self.end))
sorted_le(kind, a, b) ==
    IF kind = "begin" THEN a.begin <= b.begin ELSE b.end <= a.end

swap(data, i, j) == [data EXCEPT ![i] = data[j], ![j] = data[i]]

\* max-heap sift-up of the element at pos (1-based; the parent of i is i \div 2)
RECURSIVE sift_up(_, _, _)
sift_up(kind, data, pos) ==
    IF pos > 1 /\ ~sorted_le(kind, data[pos], data[pos \div 2])
    THEN sift_up(kind, swap(data, pos, pos \div 2), pos \div 2)
    ELSE data

push(kind, data, item) == sift_up(kind, Append(data, item), Len(data) + 1)

----------------------------------------------------------------------------
(* IntervalTree::new *)

center_of(begin, end) == div2(wrapping_add(begin, end))

\* mutation: a range check in new, refusing begin > end
new_panics_checked(begin, end) ==
    (overflow_checks /\ add_overflows(begin, end)) \/ begin > end

\* the only failure of new: `begin + end` in an overflow-checked build
new_panics(begin, end) == overflow_checks /\ add_overflows(begin, end)

new(begin, end) ==
    [begin |-> begin, end |-> end, center |-> center_of(begin, end),
     left |-> None, right |-> None,
     overlaps_begin |-> <<>>, overlaps_end |-> <<>>]

----------------------------------------------------------------------------
(* IntervalTree::insert *)

\* assert!(interval.begin >= self.begin && interval.end <= self.end) fails
overflow_interval(self, interval) ==
    ~(interval.begin >= self.begin /\ interval.end <= self.end)

\* mutation: `<` for `<=` in the test for the left half
fits_left_strict(self, interval) == interval.end < self.center

fits_left(self, interval) == interval.end <= self.center

fits_right(self, interval) == interval.begin > self.center

\* mutation: the `is_none()` test dropped, a fresh child replaces the old one
always_create(child, begin, end) == new(begin, end)

\* `if self.left.is_none() { self.left = Some(Box::new(new(..))) }` and
\* `self.left.as_mut().unwrap()`, the same for right
get_or_create(child, begin, end) ==
    IF child = None THEN new(begin, end) ELSE child[1]

store(self, interval) ==
    [self EXCEPT !.overlaps_begin = push("begin", @, interval),
                 !.overlaps_end = push("end", @, interval)]

\* The recursive descent.  visited holds the ranges of the nodes on the
\* current call stack: a range met again means the same call with the same
\* arguments recurs for ever, which ends in stack exhaustion.
\* outcome: "ok" | "assert" | "overflow" | "stack"
RECURSIVE insert(_, _, _)
insert(self, interval, visited) ==
    LET here == <<self.begin, self.end>> IN
    IF overflow_interval(self, interval)
    THEN [node |-> self, outcome |-> "assert", depth |-> Cardinality(visited)]
    ELSE IF here \in visited
    THEN [node |-> self, outcome |-> "stack", depth |-> Cardinality(visited)]
    ELSE IF fits_left(self, interval)
    THEN IF self.left = None /\ new_panics(self.begin, self.center)
         THEN [node |-> self, outcome |-> "overflow", depth |-> Cardinality(visited)]
         ELSE LET child == get_or_create(self.left, self.begin, self.center)
                  r == insert(child, interval, visited \cup {here})
              IN  [r EXCEPT !.node = [self EXCEPT !.left = Some(r.node)]]
    ELSE IF fits_right(self, interval)
    THEN IF self.right = None /\ new_panics(self.center, self.end)
         THEN [node |-> self, outcome |-> "overflow", depth |-> Cardinality(visited)]
         ELSE LET child == get_or_create(self.right, self.center, self.end)
                  r == insert(child, interval, visited \cup {here})
              IN  [r EXCEPT !.node = [self EXCEPT !.right = Some(r.node)]]
    ELSE [node |-> store(self, interval), outcome |-> "ok",
          depth |-> Cardinality(visited)]

----------------------------------------------------------------------------
(* IntervalTree::find_with_point *)

\* assert!(point >= self.begin && point < self.end) fails
\* mutation: the end of the range taken as inside it
overflow_point_closed(self, point) ==
    ~(point >= self.begin /\ point <= self.end)

overflow_point(self, point) == ~(point >= self.begin /\ point < self.end)

goes_left(self, point) == point < self.center

begin_filter(intv, point) == intv.begin <= point

\* mutation: `>=` for `>`, the end of an interval taken as inside it
end_filter_closed(intv, point) == intv.end >= point

end_filter(intv, point) == intv.end > point

RECURSIVE find_with_point_rec(_, _)
find_with_point_rec(self, point) ==
    IF goes_left(self, point)
    THEN {intv \in Range(self.overlaps_begin) : begin_filter(intv, point)}
         \cup (IF self.left # None
               THEN find_with_point_rec(self.left[1], point)
               ELSE {})
    ELSE {intv \in Range(self.overlaps_end) : end_filter(intv, point)}
         \cup (IF self.right # None
               THEN find_with_point_rec(self.right[1], point)
               ELSE {})

find_with_point(self, point) ==
    IF overflow_point(self, point)
    THEN [panicked |-> TRUE, found |-> {}]
    ELSE [panicked |-> FALSE, found |-> find_with_point_rec(self, point)]

\* find_with_interval as the source has it (a commented-out block):
\* `found.union(&self.find_with_point(p))` builds a lazy iterator that is
\* dropped, so `found` stays the empty set it was created as.
union_discarded(found, other) == found

RECURSIVE find_with_interval_loop(_, _, _, _)
find_with_interval_loop(self, p, end, found) ==
    IF p >= end THEN found
    ELSE find_with_interval_loop(self, p + 1, end,
             union_discarded(found, find_with_point(self, p).found))

find_with_interval(self, interval) ==
    IF overflow_interval(self, interval)
    THEN [panicked |-> TRUE, found |-> {}]
    ELSE [panicked |-> FALSE,
          found |-> find_with_interval_loop(self, interval.begin, interval.end, {})]

----------------------------------------------------------------------------
(* Inputs *)

\* root ranges: [base, base + len) below zero, from zero, and below MaxInt
Bases == {-Span, 0, MaxInt - Span}
Roots == {<<b, b + len>> : b \in Bases, len \in 0..Span}

\* points and interval endpoints tried on a tree: its range and one beyond
Points(self) == ((self.begin - 1)..(self.end + 1)) \cap T

\* Interval<T> keeps begin <= end
Intervals(self) ==
    {Interval(b, e) : b \in Points(self), e \in Points(self)} \cap
    {i \in [begin : T, end : T] : i.begin <= i.end}

----------------------------------------------------------------------------
(* Actions *)

Init ==
    /\ tree = None
    /\ status = "none"
    /\ inserted = <<>>
    /\ last = [op |-> "none"]
    /\ overflow_checks \in BOOLEAN

DoNew(begin, end) ==
    /\ last' = [op |-> "new", begin |-> begin, end |-> end]
    /\ IF new_panics(begin, end)
       THEN tree' = None /\ status' = "panicked"
       ELSE tree' = Some(new(begin, end)) /\ status' = "ok"
    /\ UNCHANGED <<inserted, overflow_checks>>

New == status = "none" /\ \E r \in Roots : DoNew(r[1], r[2])

Insert ==
    /\ status = "ok"
    /\ Len(inserted) < MaxInserts
    /\ \E interval \in Intervals(tree[1]) :
         LET r == insert(tree[1], interval, {}) IN
         /\ tree' = Some(r.node)
         /\ last' = [op |-> "insert", interval |-> interval,
                     outcome |-> r.outcome, depth |-> r.depth]
         /\ status' = CASE r.outcome = "ok" -> "ok"
                        [] r.outcome = "stack" -> "aborted"
                        [] OTHER -> "panicked"
         /\ inserted' = IF r.outcome = "ok"
                        THEN Append(inserted, interval) ELSE inserted
    /\ UNCHANGED overflow_checks

\* mutation: a find that consumes the root's heaps (pops instead of iterating)
FindWithPointDraining ==
    /\ status = "ok"
    /\ \E point \in Points(tree[1]) :
         LET r == find_with_point(tree[1], point) IN
         /\ last' = [op |-> "find_with_point", point |-> point,
                     panicked |-> r.panicked, found |-> r.found]
         /\ status' = IF r.panicked THEN "panicked" ELSE "ok"
         /\ tree' = Some([tree[1] EXCEPT !.overlaps_begin = <<>>,
                                         !.overlaps_end = <<>>])
    /\ UNCHANGED <<inserted, overflow_checks>>

FindWithPoint ==
    /\ status = "ok"
    /\ \E point \in Points(tree[1]) :
         LET r == find_with_point(tree[1], point) IN
         /\ last' = [op |-> "find_with_point", point |-> point,
                     panicked |-> r.panicked, found |-> r.found]
         /\ status' = IF r.panicked THEN "panicked" ELSE "ok"
    /\ UNCHANGED <<tree, inserted, overflow_checks>>

FindWithInterval ==
    /\ status = "ok"
    /\ \E interval \in Intervals(tree[1]) :
         LET r == find_with_interval(tree[1], interval) IN
         /\ last' = [op |-> "find_with_interval", interval |-> interval,
                     panicked |-> r.panicked, found |-> r.found]
         /\ status' = IF r.panicked THEN "panicked" ELSE "ok"
    /\ UNCHANGED <<tree, inserted, overflow_checks>>

Next == New \/ Insert \/ FindWithPoint \/ FindWithInterval

Spec == Init /\ [][Next]_vars

\* new alone, over every pair of i8 bounds
NewAny == status = "none" /\ \E begin \in T, end \in T : DoNew(begin, end)

SpecNew == Init /\ [][NewAny]_vars

----------------------------------------------------------------------------
(* Vocabulary of the properties *)

root == tree[1]

InRange(self, interval) ==
    self.begin <= interval.begin /\ interval.end <= self.end

Contains(interval, point) == interval.begin <= point /\ point < interval.end

Max(a, b) == IF a >= b THEN a ELSE b
Min(a, b) == IF a <= b THEN a ELSE b

Overlap(i, q) == Max(i.begin, q.begin) < Min(i.end, q.end)

Count(s, x) == Cardinality({i \in DOMAIN s : s[i] = x})

\* every node of the tree below (and including) self
RECURSIVE Nodes(_)
Nodes(self) ==
    {self}
    \cup (IF self.left # None THEN Nodes(self.left[1]) ELSE {})
    \cup (IF self.right # None THEN Nodes(self.right[1]) ELSE {})

\* the intervals held anywhere below (and including) self
Held(self) == UNION {Range(n.overlaps_begin) : n \in Nodes(self)}

\* how many copies of interval x the nodes below (and including) self hold
RECURSIVE Stored(_, _)
Stored(self, x) ==
    Count(self.overlaps_begin, x)
    + (IF self.left # None THEN Stored(self.left[1], x) ELSE 0)
    + (IF self.right # None THEN Stored(self.right[1], x) ELSE 0)

\* levels below self
RECURSIVE Depth(_)
Depth(self) ==
    Max(IF self.left # None THEN 1 + Depth(self.left[1]) ELSE 0,
        IF self.right # None THEN 1 + Depth(self.right[1]) ELSE 0)

\* how many times a range of length n can be halved before it is empty
RECURSIVE Halvings(_)
Halvings(n) == IF n <= 0 THEN 0 ELSE 1 + Halvings(n \div 2)

\* the tree a fresh root over [begin, end) becomes by inserting s in order
RECURSIVE Build(_, _)
Build(self, s) ==
    IF s = <<>> THEN [node |-> self, outcome |-> "ok"]
    ELSE LET r == insert(self, Head(s), {}) IN
         IF r.outcome = "ok" THEN Build(r.node, Tail(s)) ELSE r

Reordered(s) ==
    {[i \in DOMAIN s |-> s[pi[i]]] : pi \in Permutations(DOMAIN s)}

----------------------------------------------------------------------------
(* C1 *)

\* C1: after any sequence of inserts that returned, find_with_point(p), for
\* every p with begin <= p < end of the root, returns exactly the inserted
\* intervals I with I.begin <= p < I.end; so does the call the program made.
C1_FindWithPointExact ==
    status = "ok" =>
        /\ \A p \in root.begin..(root.end - 1) :
             find_with_point(root, p) =
                 [panicked |-> FALSE,
                  found |-> {i \in Range(inserted) : Contains(i, p)}]
        /\ last.op = "find_with_point" =>
             last.found = {i \in Range(inserted) : Contains(i, last.point)}

\* a find at a point that is the begin of one inserted interval (returned)
\* and the end of another, non-empty one (not returned)
C1_Witness ==
    /\ status = "ok"
    /\ last.op = "find_with_point"
    /\ \E i \in Range(inserted), j \in Range(inserted) :
         /\ i.begin = last.point /\ i \in last.found
         /\ j.end = last.point /\ j.begin < j.end /\ j \notin last.found

----------------------------------------------------------------------------
(* C2 *)

\* C2: find_with_interval(Q), Q within the root range, returns exactly the
\* inserted intervals that share a point with Q.
C2_FindWithIntervalExact ==
    (status = "ok" /\ last.op = "find_with_interval") =>
        last.found = {i \in Range(inserted) : Overlap(i, last.interval)}

----------------------------------------------------------------------------
(* C3 *)

\* C3: an insert aborts if and only if the interval is not within the root
\* range; the range check never fails below the root; an aborted insert
\* leaves the tree as it was.
C3_InsertAbortsIffOutOfRange ==
    [][(status = "ok" /\ last'.op = "insert"
          /\ (status' # "ok" \/ inserted' # inserted)) =>
            /\ (status' # "ok") <=> ~InRange(root, last'.interval)
            /\ last'.outcome = "assert" => last'.depth = 0
            /\ status' # "ok" => tree' = tree]_vars

----------------------------------------------------------------------------
(* C4 *)

\* C4: find_with_point(point) aborts if and only if point < root.begin or
\* point >= root.end; for a point in range it returns a set, empty when no
\* inserted interval contains the point, and the program goes on.
C4_FindAbortsIffOutOfRange ==
    (last.op = "find_with_point" /\ tree # None) =>
        /\ last.panicked <=> (last.point < root.begin \/ last.point >= root.end)
        /\ (status = "panicked") <=> last.panicked
        /\ last.panicked => last.found = {}
        /\ last.found \subseteq Range(inserted)
        /\ (~last.panicked /\ \A i \in Range(inserted) : ~Contains(i, last.point))
              => last.found = {}

\* a find in range that returns the empty set from a tree that holds intervals
C4_Witness ==
    /\ last.op = "find_with_point"
    /\ status = "ok"
    /\ inserted # <<>>
    /\ last.found = {}
    /\ root.begin <= last.point /\ last.point < root.end

----------------------------------------------------------------------------
(* C5 *)

----------------------------------------------------------------------------
(* C6 *)

\* C6: the tree built over the same root range by inserting the same
\* intervals in any other order answers find_with_point(p) as this one does,
\* at every point p of the root range.
C6_InsertOrderIndependent ==
    status = "ok" =>
        \A s \in Reordered(inserted) :
            LET other == Build(new(root.begin, root.end), s) IN
            /\ other.outcome = "ok"
            /\ \A p \in root.begin..(root.end - 1) :
                 find_with_point(other.node, p) = find_with_point(root, p)

\* two inserts whose other order builds a different tree, and a find that
\* returns both intervals
C6_Witness ==
    /\ status = "ok"
    /\ last.op = "find_with_point"
    /\ Cardinality(last.found) >= 2
    /\ \E s \in Reordered(inserted) :
         Build(new(root.begin, root.end), s).node # root

----------------------------------------------------------------------------
(* C7 *)

\* C7: every insert of an interval with root.begin <= begin <= end <=
\* root.end terminates, and the depth of the tree stays within the number
\* of times the root range can be halved.
C7_InsertTerminatesDepthBounded ==
    /\ (last.op = "insert" /\ InRange(root, last.interval)
          /\ last.interval.begin <= last.interval.end)
         => last.outcome # "stack"
    /\ (tree # None /\ status = "ok")
         => Depth(root) <= Halvings(root.end - root.begin)

----------------------------------------------------------------------------
(* C8 *)

\* C8: a find_with_point leaves the tree (nodes, ranges, centers, heaps) as
\* it was, and two finds in a row at the same point return equal sets.
C8_FindLeavesTreeUnchanged ==
    [][last'.op = "find_with_point" =>
          /\ tree' = tree
          /\ inserted' = inserted
          /\ (last.op = "find_with_point" /\ last.point = last'.point)
                => (last'.found = last.found /\ last'.panicked = last.panicked)]_vars

\* a find that returned intervals
C8_Witness ==
    /\ last.op = "find_with_point"
    /\ status = "ok"
    /\ last.found # {}
    /\ root.overlaps_begin # <<>>

----------------------------------------------------------------------------
(* C9 *)

\* the placement rule at self and everywhere below it
RECURSIVE Placed(_)
Placed(self) ==
    /\ \A i \in Range(self.overlaps_begin) :
         i.begin <= self.center /\ self.center < i.end
    /\ \A i \in Range(self.overlaps_begin) \cup Range(self.overlaps_end) :
         Count(self.overlaps_begin, i) = Count(self.overlaps_end, i)
    /\ self.left # None =>
         /\ \A i \in Held(self.left[1]) : i.end <= self.center
         /\ Placed(self.left[1])
    /\ self.right # None =>
         /\ \A i \in Held(self.right[1]) : i.begin > self.center
         /\ Placed(self.right[1])

\* C9: every inserted interval is held once per insert, at the first node of
\* its descent that it fits neither left nor right of: an interval at a node
\* has begin <= center < end, one in the left subtree has end <= center, one
\* in the right subtree has begin > center.
C9_PlacementInvariant ==
    tree # None =>
        /\ Placed(root)
        /\ \A i \in Range(inserted) \cup Held(root) :
             Stored(root, i) = Count(inserted, i)

\* intervals held at the root and at a child
C9_Witness ==
    /\ status = "ok"
    /\ last.op = "insert"
    /\ root.overlaps_begin # <<>>
    /\ \E n \in Nodes(root) : n # root /\ n.overlaps_begin # <<>>

----------------------------------------------------------------------------
(* C10 *)

\* C10: every node, root or child, whose range has begin < end has
\* begin <= center < end, so the ranges of its children lie within its own.
C10_CenterWithinRange ==
    tree # None =>
        \A n \in Nodes(root) :
            n.begin < n.end =>
                /\ n.begin <= n.center /\ n.center < n.end
                /\ n.left # None =>
                     (n.begin <= n.left[1].begin /\ n.left[1].end <= n.end)
                /\ n.right # None =>
                     (n.begin <= n.right[1].begin /\ n.right[1].end <= n.end)

====
